---- MODULE Spec2Model ----
(***************************************************************************)
(* Model of the b-movies catalogue page (src/src/app/movies/page.tsx) and  *)
(* of the order server actions (src/src/actions/orders.ts).                *)
(*                                                                         *)
(*  - SpecPage   : MoviesPage, one request after another (a rendered link  *)
(*                 can be followed to the next request).                   *)
(*  - SpecWindow : the page-window calculator getPaginationItems and the   *)
(*                 token rendering of MoviesPage, over all small inputs.   *)
(*  - SpecOrders : concurrent invocations of the order server actions,     *)
(*                 one step per awaited data-store call.                   *)
(*  - SpecCrew   : concurrent invocations of linkPersonToMovieAction and   *)
(*                 unlinkPersonFromMovieAction.                            *)
(*  - SpecActions: all seven mutating server actions together.             *)
(***************************************************************************)
EXTENDS Integers, Sequences, FiniteSets, TLC

VARIABLES params, totalMovies, view, win,
          orders, orderItems, crew, nextId, revalidated, inv

vars == <<params, totalMovies, view, win,
          orders, orderItems, crew, nextId, revalidated, inv>>
pageVars == <<params, totalMovies, view>>
orderVars == <<orders, orderItems, crew, nextId, revalidated, inv>>

(***************************************************************************)
(* Bounds of the model.                                                    *)
(***************************************************************************)
MaxPageLen == 2
MaxMoviePages == 3
MaxTotalPages == 11
MaxSiblings == 3
MaxOrders == 1
MaxItems == 2
NumInvocations == 2
MaxCrewRows == 2
NumCallers == 1

(***************************************************************************)
(* JavaScript values.  A number is a record so that NaN is a value of the  *)
(* same type as the integers; an optional string (a query parameter that   *)
(* may be missing) is a record as well.                                    *)
(***************************************************************************)
NaN == [nan |-> TRUE, n |-> 0]
Num(i) == [nan |-> FALSE, n |-> i]

NumAdd(a, i) == IF a.nan THEN NaN ELSE Num(a.n + i)
NumMul(a, i) == IF a.nan THEN NaN ELSE Num(a.n * i)

\* Math.max / Math.min: NaN if any argument is NaN.
MathMax(i, b) == IF b.nan THEN NaN ELSE Num(IF i >= b.n THEN i ELSE b.n)
MathMin(i, b) == IF b.nan THEN NaN ELSE Num(IF i <= b.n THEN i ELSE b.n)

\* a === i for a number a and an integer i (NaN equals nothing).
StrictEq(a, i) == ~a.nan /\ a.n = i

None == [some |-> FALSE, v |-> ""]
Some(s) == [some |-> TRUE, v |-> s]
NoChars == [some |-> FALSE, v |-> <<>>]

\* !value for an optional string / optional character sequence.
Falsy(o) == ~o.some \/ o.v = ""
FalsyChars(o) == ~o.some \/ o.v = <<>>

(***************************************************************************)
(* parseInt(string) without radix, on a string given as its characters:    *)
(* leading white space is skipped, then an optional sign, then an optional *)
(* 0x prefix (radix 16), then the longest run of digits of the radix; no   *)
(* digit at all gives NaN.                                                 *)
(***************************************************************************)
DigitVal == [c \in {"0", "1", "2", "3", "4", "5", "6", "7", "8", "9", "a"} |->
               CASE c = "0" -> 0 [] c = "1" -> 1 [] c = "2" -> 2 [] c = "3" -> 3
                 [] c = "4" -> 4 [] c = "5" -> 5 [] c = "6" -> 6 [] c = "7" -> 7
                 [] c = "8" -> 8 [] c = "9" -> 9 [] c = "a" -> 10]

IsDigit(c, radix) == c \in DOMAIN DigitVal /\ DigitVal[c] < radix

RECURSIVE SkipSpace(_)
SkipSpace(s) == IF s # <<>> /\ Head(s) = " " THEN SkipSpace(Tail(s)) ELSE s

RECURSIVE DigitRun(_, _, _, _)
\* the value of the longest digit prefix of s, or NaN when it is empty
DigitRun(s, radix, acc, seen) ==
    IF s # <<>> /\ IsDigit(Head(s), radix)
    THEN DigitRun(Tail(s), radix, acc * radix + DigitVal[Head(s)], TRUE)
    ELSE IF seen THEN Num(acc) ELSE NaN

parseInt(str) ==
    LET s1 == SkipSpace(str)
        neg == s1 # <<>> /\ Head(s1) = "-"
        s2 == IF s1 # <<>> /\ Head(s1) \in {"-", "+"} THEN Tail(s1) ELSE s1
        hex == Len(s2) >= 2 /\ s2[1] = "0" /\ s2[2] \in {"x", "X"}
        s3 == IF hex THEN Tail(Tail(s2)) ELSE s2
        r == DigitRun(s3, IF hex THEN 16 ELSE 10, 0, FALSE)
    IN  IF r.nan THEN NaN ELSE Num(IF neg THEN 0 - r.n ELSE r.n)

\* String(number), as characters.
DigitChar == <<"0", "1", "2", "3", "4", "5", "6", "7", "8", "9">>

RECURSIVE NatChars(_)
NatChars(i) == IF i < 10 THEN <<DigitChar[i + 1]>>
               ELSE Append(NatChars(i \div 10), DigitChar[(i % 10) + 1])

NumberToString(a) ==
    IF a.nan THEN <<"N", "a", "N">>
    ELSE IF a.n < 0 THEN <<"-">> \o NatChars(0 - a.n) ELSE NatChars(a.n)

(***************************************************************************)
(* Property lookup obj[key] on an object literal: an own key gives its     *)
(* value, a key of Object.prototype gives the inherited member (a function *)
(* or object, always truthy), any other key gives undefined.               *)
(***************************************************************************)
StringValue(s) == [kind |-> "string", v |-> s]
UndefinedValue == [kind |-> "undefined", v |-> "undefined"]

ObjectPrototypeKeys == {"constructor", "toString", "valueOf", "hasOwnProperty",
                        "isPrototypeOf", "toLocaleString", "__proto__"}

\* String(member): what the inherited member turns into when used as text
NativeSource(key) ==
    CASE key = "constructor" -> "function Object() { [native code] }"
      [] key = "__proto__" -> "[object Object]"
      [] OTHER -> "function " \o key \o "() { [native code] }"

InheritedValue(key) == [kind |-> "object", v |-> NativeSource(key)]

PropertyGet(obj, key) ==
    IF key \in DOMAIN obj THEN StringValue(obj[key])
    ELSE IF key \in ObjectPrototypeKeys THEN InheritedValue(key)
    ELSE UndefinedValue

Truthy(val) == val.kind = "object" \/ (val.kind = "string" /\ val.v # "")

\* a value used as a computed property key or as a URL parameter value
ToText(val) == val.v

(***************************************************************************)
(* MoviesPage: the query parameters of the request are canonicalised.      *)
(***************************************************************************)
SORT_MAP == [title |-> "title", releaseDate |-> "releaseDate",
             rating |-> "rating", votes |-> "votes"]

PAGE_SIZE == 24

SIBLINGS == 2

ParamQuery(ps) == IF Falsy(ps.q) THEN "" ELSE ps.q.v

ParamGenre(ps) == IF Falsy(ps.genre) THEN "" ELSE ps.genre.v

ParamSort(ps) == IF Falsy(ps.sort) THEN "title" ELSE ps.sort.v

ParamPage(ps) == parseInt(IF FalsyChars(ps.page) THEN <<"1">> ELSE ps.page.v)

SortOrderAnyCase(ps) ==
    IF ps.order.some /\ ps.order.v \in {"desc", "DESC", "Desc"} THEN "desc" ELSE "asc"

SortOrder(ps) == IF ps.order.some /\ ps.order.v = "desc" THEN "desc" ELSE "asc"

SortField(ps) ==
    LET got == PropertyGet(SORT_MAP, ParamSort(ps))
    IN  IF Truthy(got) THEN got ELSE StringValue("title")

CurrentPage(ps) == MathMax(1, ParamPage(ps))

\* the canonical descriptor of a request
Descriptor(ps) ==
    [query |-> ParamQuery(ps),
     selectedGenre |-> ParamGenre(ps),
     sortField |-> SortField(ps),
     sortOrder |-> SortOrder(ps),
     currentPage |-> CurrentPage(ps)]

\* Math.ceil(totalMovies / PAGE_SIZE) for a count totalMovies >= 0
TotalPages(count) == (count + PAGE_SIZE - 1) \div PAGE_SIZE

(***************************************************************************)
(* createPageHref: the parameters of the link to page p, as the entries of *)
(* the URLSearchParams it builds (an entry that is not set is absent).     *)
(***************************************************************************)
KeepEntry(o) == IF Falsy(o) THEN None ELSE Some(o.v)

createPageHrefNoGenre(ps, p) ==
    [q |-> KeepEntry(ps.q),
     genre |-> None,
     sort |-> KeepEntry(ps.sort),
     order |-> KeepEntry(ps.order),
     page |-> [some |-> TRUE, v |-> NumberToString(p)]]

createPageHref(ps, p) ==
    [q |-> KeepEntry(ps.q),
     genre |-> KeepEntry(ps.genre),
     sort |-> KeepEntry(ps.sort),
     order |-> KeepEntry(ps.order),
     page |-> [some |-> TRUE, v |-> NumberToString(p)]]

(***************************************************************************)
(* getPaginationItems(totalPages, currentPage, siblingCount): the page-    *)
(* window calculator.  A token is a page number or the ellipsis marker.    *)
(* The first and the last page are anchors, the window is the pages within *)
(* siblingCount of the current page, a single hidden page between two      *)
(* shown pages is shown as its number, and every longer run of hidden      *)
(* pages is one ellipsis.  A comparison with NaN is false, so a NaN        *)
(* current page has an empty window.                                       *)
(***************************************************************************)
Ellipsis == [ellipsis |-> TRUE, n |-> 0]
PageToken(i) == [ellipsis |-> FALSE, n |-> i]

AtLeastZero(i) == IF i < 0 THEN 0 ELSE i

WindowPages(total, current, siblings) ==
    {p \in 1..total : /\ ~current.nan
                      /\ current.n - AtLeastZero(siblings) <= p
                      /\ p <= current.n + AtLeastZero(siblings)}

AnchorPages(total) == {1, total}

SingleGapsHidden(total, base) == {}

SingleGaps(total, base) ==
    {p \in 1..total : p \notin base /\ (p - 1) \in base /\ (p + 1) \in base}

ShownPages(total, current, siblings) ==
    LET base == WindowPages(total, current, siblings) \cup AnchorPages(total)
    IN  base \cup SingleGaps(total, base)

RECURSIVE TokensFrom(_, _, _)
\* the tokens for the pages p..total: a shown page is its number, the first
\* page of a run of hidden pages is the ellipsis of that run
TokensFrom(p, total, shown) ==
    IF p > total THEN <<>>
    ELSE IF p \in shown THEN <<PageToken(p)>> \o TokensFrom(p + 1, total, shown)
    ELSE IF (p - 1) \in shown THEN <<Ellipsis>> \o TokensFrom(p + 1, total, shown)
    ELSE TokensFrom(p + 1, total, shown)

getPaginationItems(total, current, siblings) ==
    IF total <= 1 THEN <<>>
    ELSE TokensFrom(1, total, ShownPages(total, current, siblings))

(***************************************************************************)
(* The pagination control of MoviesPage.                                   *)
(***************************************************************************)
PaginationRenderedFromOne(total) == total > 0

PaginationRendered(total) == total > 1

PreviousTarget(current) == MathMax(1, NumAdd(current, -1))

NextTarget(current, total) == MathMin(total, NumAdd(current, 1))

IsActiveOffByOne(current, item) == StrictEq(current, item - 1)

IsActive(current, item) == StrictEq(current, item)

NoHref == [q |-> None, genre |-> None, sort |-> None, order |-> None,
           page |-> NoChars]

\* paginationItems.map(...): an ellipsis element or a link to the page
PaginationLinks(items, current, ps) ==
    [i \in 1..Len(items) |->
        IF items[i].ellipsis
        THEN [kind |-> "ellipsis", page |-> 0, isActive |-> FALSE,
              href |-> NoHref]
        ELSE [kind |-> "link", page |-> items[i].n,
              isActive |-> IsActive(current, items[i].n),
              href |-> createPageHref(ps, Num(items[i].n))]]

NoView == [rendered |-> FALSE]

\* everything MoviesPage computes for the request ps over count movies
MoviesPageView(ps, count) ==
    LET d == Descriptor(ps)
        total == TotalPages(count)
        items == getPaginationItems(total, d.currentPage, SIBLINGS)
    IN  [rendered |-> TRUE,
         descriptor |-> d,
         orderByField |-> ToText(d.sortField),
         orderByDirection |-> d.sortOrder,
         skip |-> NumMul(NumAdd(d.currentPage, -1), PAGE_SIZE),
         take |-> PAGE_SIZE,
         totalPages |-> total,
         calculatorPage |-> d.currentPage,
         items |-> items,
         control |-> PaginationRendered(total),
         previousTarget |-> PreviousTarget(d.currentPage),
         nextTarget |-> NextTarget(d.currentPage, total),
         previousHref |-> createPageHref(ps, PreviousTarget(d.currentPage)),
         nextHref |-> createPageHref(ps, NextTarget(d.currentPage, total)),
         links |-> PaginationLinks(items, d.currentPage, ps)]

(***************************************************************************)
(* The requests of the page specification.                                 *)
(***************************************************************************)
PageChars == {"0", "1", "2", "-", " ", "a", "x"}

RECURSIVE CharSeqs(_)
CharSeqs(len) ==
    IF len = 0 THEN {<<>>}
    ELSE LET shorter == CharSeqs(len - 1)
         IN  shorter \cup {Append(s, c) : s \in shorter, c \in PageChars}

QInputs == {None, Some(""), Some("alien")}
GenreInputs == {None, Some("Horror")}
SortInputs == {None, Some(""), Some("title"), Some("rating"), Some("Title"),
               Some("year"), Some("constructor"), Some("toString")}
OrderInputs == {None, Some(""), Some("desc"), Some("DESC"), Some("Desc"),
                Some("asc")}
PageInputs == {NoChars} \cup {[some |-> TRUE, v |-> s] : s \in CharSeqs(MaxPageLen)}

ParamInputs == [q : QInputs, genre : GenreInputs, sort : SortInputs,
                order : OrderInputs, page : PageInputs]

NoParams == [q |-> None, genre |-> None, sort |-> None, order |-> None,
             page |-> NoChars]

TotalMoviesInputs ==
    {n \in 0..(MaxMoviePages * PAGE_SIZE) : n % PAGE_SIZE \in {0, 1}}

WinIdle == [done |-> FALSE, totalPages |-> 0, currentPage |-> 1,
            siblingCount |-> 0, items |-> <<>>, links |-> <<>>,
            control |-> FALSE]

\* MoviesPage handles the request
MoviesPage ==
    /\ ~view.rendered
    /\ view' = MoviesPageView(params, totalMovies)
    /\ UNCHANGED <<params, totalMovies, win>>
    /\ UNCHANGED orderVars

\* the hrefs of the rendered pagination control
RenderedHrefs ==
    IF view.control
    THEN {view.previousHref, view.nextHref}
         \cup {view.links[i].href : i \in {j \in 1..Len(view.links) :
                                                view.links[j].kind = "link"}}
    ELSE {}

\* a rendered link is followed: its parameters are the next request
FollowLink ==
    /\ view.rendered
    /\ \E href \in RenderedHrefs : params' = href
    /\ view' = NoView
    /\ UNCHANGED <<totalMovies, win>>
    /\ UNCHANGED orderVars

(***************************************************************************)
(* The calculator on its own: every small (totalPages, currentPage,        *)
(* siblingCount), and the tokens rendered from its result.                 *)
(***************************************************************************)
WinInputs == [done : {FALSE}, totalPages : 0..MaxTotalPages,
              currentPage : 1..(MaxTotalPages + 1),
              siblingCount : 0..MaxSiblings,
              items : {<<>>}, links : {<<>>}, control : {FALSE}]

ComputeWindow ==
    /\ ~win.done
    /\ LET items == getPaginationItems(win.totalPages, Num(win.currentPage),
                                       win.siblingCount)
       IN  win' = [win EXCEPT !.done = TRUE, !.items = items,
                     !.links = PaginationLinks(items, Num(win.currentPage),
                                               NoParams),
                     !.control = PaginationRendered(win.totalPages)]
    /\ UNCHANGED pageVars
    /\ UNCHANGED orderVars

(***************************************************************************)
(* The order server actions.  Each invocation runs one step per awaited    *)
(* call; the synchronous code after an await belongs to that step.  A      *)
(* data-store call that throws is caught by the action's try/catch and     *)
(* ends the invocation with a failure result.                              *)
(***************************************************************************)
Proc == 1..NumInvocations

Users == {"u1"}
MoviePrice == [m \in {1, 2} |-> IF m = 1 THEN 3 ELSE 5]

UserIdInputs == {"", "u1", "ghost"}
OrderIdInputs == 0..(MaxOrders + 1)
MovieIdInputs == 0..3
QuantityInputs == {0, 2}
OrderItemIdInputs == 0..MaxItems

IdleInvocation == [op |-> "none", pc |-> "idle", admin |-> FALSE, userId |-> "",
                   orderId |-> 0, movieId |-> 0, quantity |-> 0,
                   orderItemId |-> 0, price |-> 0, newTotal |-> 0,
                   result |-> "none",
                   authorized |-> FALSE, status |-> "", valid |-> FALSE,
                   personId |-> 0, role |-> "", job |-> "", character |-> "",
                   order |-> 0, existingId |-> 0, existingOrder |-> 0]

Finish(p, res) == [IdleInvocation EXCEPT !.op = inv[p].op, !.pc = "done",
                                         !.admin = inv[p].admin, !.result = res]

RECURSIVE SumItems(_)
\* items.reduce((sum, item) => sum + item.priceAtPurchase * item.quantity, 0)
SumItems(items) ==
    IF items = {} THEN 0
    ELSE LET i == CHOOSE x \in items : TRUE
         IN  i.priceAtPurchase * i.quantity + SumItems(items \ {i})

ItemsOf(orderId) == {i \in orderItems : i.orderId = orderId}

InFlight(op) == Cardinality({p \in Proc : inv[p].op = op /\ inv[p].pc # "done"})

\* a caller invokes createOrder with form data
CallCreateOrder(p) ==
    /\ inv[p].pc = "idle"
    /\ nextId.order + InFlight("createOrder") <= MaxOrders
    /\ \E admin \in BOOLEAN, userId \in UserIdInputs :
          inv' = [inv EXCEPT ![p] = [IdleInvocation EXCEPT
                     !.op = "createOrder", !.pc = "requireAdmin",
                     !.admin = admin, !.userId = userId]]
    /\ UNCHANGED <<orders, orderItems, nextId, revalidated>>
    /\ UNCHANGED <<pageVars, win, crew>>

\* a caller invokes addOrderItem with form data
CallAddOrderItem(p) ==
    /\ inv[p].pc = "idle"
    /\ nextId.item + InFlight("addOrderItem") <= MaxItems
    /\ \E admin \in BOOLEAN, orderId \in OrderIdInputs,
          movieId \in MovieIdInputs, quantity \in QuantityInputs :
          inv' = [inv EXCEPT ![p] = [IdleInvocation EXCEPT
                     !.op = "addOrderItem", !.pc = "requireAdmin",
                     !.admin = admin, !.orderId = orderId,
                     !.movieId = movieId,
                     !.quantity = IF quantity = 0 THEN 1 ELSE quantity]]
    /\ UNCHANGED <<orders, orderItems, nextId, revalidated>>
    /\ UNCHANGED <<pageVars, win, crew>>

\* a caller invokes removeOrderItem with form data
CallRemoveOrderItem(p) ==
    /\ inv[p].pc = "idle"
    /\ \E admin \in BOOLEAN, orderItemId \in OrderItemIdInputs :
          inv' = [inv EXCEPT ![p] = [IdleInvocation EXCEPT
                     !.op = "removeOrderItem", !.pc = "requireAdmin",
                     !.admin = admin, !.orderItemId = orderItemId]]
    /\ UNCHANGED <<orders, orderItems, nextId, revalidated>>
    /\ UNCHANGED <<pageVars, win, crew>>

\* requireAdmin() of @/lib/auth: it returns for an admin session and throws
\* (or redirects) for any other, so the caller does not continue
requireAdmin(admin) == IF admin THEN "returns" ELSE "throws"

OrderStatuses == {"PENDING", "SHIPPED", "DELIVERED", "CANCELLED", "PROCESSING"}

AuthPassesAlways(i) == TRUE

\* await requireAdmin() as the first statement: the action goes on only when
\* the call returns
AuthPasses(i) == requireAdmin(i.admin) = "returns"

\* await requireAdmin(), then the synchronous validation of the form data up
\* to the next awaited call
RequireAdmin(p) ==
    /\ inv[p].pc = "requireAdmin"
    /\ LET i == inv[p]
           valid == CASE i.op = "createOrder" -> i.userId # ""
                      [] i.op = "deleteOrder" -> i.orderId # 0
                      [] i.op = "updateOrderStatus" -> i.status \in OrderStatuses
                      [] i.op = "addOrderItem" -> i.orderId # 0 /\ i.movieId # 0
                      [] i.op = "removeOrderItem" -> i.orderItemId # 0
                      [] OTHER -> TRUE
           first == CASE i.op = "createOrder" -> "createOrder"
                      [] i.op = "deleteOrder" -> "deleteOrder"
                      [] i.op = "updateOrderStatus" -> "updateStatus"
                      [] i.op = "addOrderItem" -> "findMovie"
                      [] i.op = "removeOrderItem" -> "findItem"
                      [] OTHER -> "parse"
       IN  inv' = [inv EXCEPT ![p] =
                     IF ~AuthPasses(i) THEN Finish(p, "unauthorized")
                     ELSE IF ~valid THEN Finish(p, "invalid")
                     ELSE [i EXCEPT !.pc = first,
                             !.authorized = (requireAdmin(i.admin) = "returns")]]
    /\ UNCHANGED <<orders, orderItems, nextId, revalidated>>
    /\ UNCHANGED <<pageVars, win, crew>>

\* createOrder: prisma.order.create, revalidatePath
CreateOrderRow(p) ==
    /\ inv[p].pc = "createOrder"
    /\ IF inv[p].userId \in Users
       THEN /\ orders' = orders @@ (nextId.order :> [totalAmount |-> 0,
                                                       status |-> "PENDING"])
            /\ nextId' = [nextId EXCEPT !.order = @ + 1]
            /\ revalidated' = revalidated \cup {<<"/admin/orders", 0>>}
            /\ inv' = [inv EXCEPT ![p] = Finish(p, "success")]
       ELSE /\ inv' = [inv EXCEPT ![p] = Finish(p, "failed")]
            /\ UNCHANGED <<orders, nextId, revalidated>>
    /\ UNCHANGED orderItems
    /\ UNCHANGED <<pageVars, win, crew>>

\* addOrderItem: prisma.movie.findUnique
AddFindMovie(p) ==
    /\ inv[p].pc = "findMovie"
    /\ inv' = [inv EXCEPT ![p] =
                 IF inv[p].movieId \in DOMAIN MoviePrice
                 THEN [inv[p] EXCEPT !.pc = "createItem",
                                     !.price = MoviePrice[inv[p].movieId]]
                 ELSE Finish(p, "notFound")]
    /\ UNCHANGED <<orders, orderItems, nextId, revalidated>>
    /\ UNCHANGED <<pageVars, win, crew>>

\* addOrderItem: prisma.orderItem.create (throws if the order is missing)
AddCreateItem(p) ==
    /\ inv[p].pc = "createItem"
    /\ IF inv[p].orderId \in DOMAIN orders
       THEN /\ orderItems' = orderItems \cup
                  {[id |-> nextId.item, orderId |-> inv[p].orderId,
                    movieId |-> inv[p].movieId, quantity |-> inv[p].quantity,
                    priceAtPurchase |-> inv[p].price]}
            /\ nextId' = [nextId EXCEPT !.item = @ + 1]
            /\ inv' = [inv EXCEPT ![p].pc = "findItems"]
       ELSE /\ inv' = [inv EXCEPT ![p] = Finish(p, "failed")]
            /\ UNCHANGED <<orderItems, nextId>>
    /\ UNCHANGED <<orders, revalidated>>
    /\ UNCHANGED <<pageVars, win, crew>>

\* removeOrderItem: prisma.orderItem.findUnique
RemoveFindItem(p) ==
    /\ inv[p].pc = "findItem"
    /\ LET found == {i \in orderItems : i.id = inv[p].orderItemId}
       IN  inv' = [inv EXCEPT ![p] =
                     IF found = {} THEN Finish(p, "notFound")
                     ELSE [inv[p] EXCEPT !.pc = "deleteItem",
                              !.orderId = (CHOOSE i \in found : TRUE).orderId]]
    /\ UNCHANGED <<orders, orderItems, nextId, revalidated>>
    /\ UNCHANGED <<pageVars, win, crew>>

\* removeOrderItem: prisma.orderItem.delete (throws if the item is gone)
RemoveDeleteItem(p) ==
    /\ inv[p].pc = "deleteItem"
    /\ LET found == {i \in orderItems : i.id = inv[p].orderItemId}
       IN  IF found = {}
           THEN /\ inv' = [inv EXCEPT ![p] = Finish(p, "failed")]
                /\ UNCHANGED orderItems
           ELSE /\ orderItems' = orderItems \ found
                /\ inv' = [inv EXCEPT ![p].pc = "findItems"]
    /\ UNCHANGED <<orders, nextId, revalidated>>
    /\ UNCHANGED <<pageVars, win, crew>>

\* addOrderItem / removeOrderItem: prisma.orderItem.findMany and the reduce
FindItems(p) ==
    /\ inv[p].pc = "findItems"
    /\ inv' = [inv EXCEPT ![p].pc = "updateOrder",
                          ![p].newTotal = SumItems(ItemsOf(inv[p].orderId))]
    /\ UNCHANGED <<orders, orderItems, nextId, revalidated>>
    /\ UNCHANGED <<pageVars, win, crew>>

\* addOrderItem / removeOrderItem: prisma.order.update, revalidatePath
UpdateOrderTotal(p) ==
    /\ inv[p].pc = "updateOrder"
    /\ IF inv[p].orderId \in DOMAIN orders
       THEN /\ orders' = [orders EXCEPT
                            ![inv[p].orderId].totalAmount = inv[p].newTotal]
            /\ revalidated' = revalidated \cup
                                {<<"/admin/orders/", inv[p].orderId>>}
            /\ inv' = [inv EXCEPT ![p] = Finish(p, "success")]
       ELSE /\ inv' = [inv EXCEPT ![p] = Finish(p, "failed")]
            /\ UNCHANGED <<orders, revalidated>>
    /\ UNCHANGED <<orderItems, nextId>>
    /\ UNCHANGED <<pageVars, win, crew>>

\* the caller receives the result of the invocation
Return(p) ==
    /\ inv[p].pc = "done"
    /\ inv' = [inv EXCEPT ![p] = IdleInvocation]
    /\ UNCHANGED <<orders, orderItems, nextId, revalidated>>
    /\ UNCHANGED <<pageVars, win, crew>>

(***************************************************************************)
(* deleteOrder and updateOrderStatus.                                      *)
(***************************************************************************)
StatusInputs == {"SHIPPED", "bogus"}

\* a caller invokes deleteOrder with form data
CallDeleteOrder(p) ==
    /\ inv[p].pc = "idle"
    /\ \E admin \in BOOLEAN, orderId \in OrderIdInputs :
          inv' = [inv EXCEPT ![p] = [IdleInvocation EXCEPT
                     !.op = "deleteOrder", !.pc = "requireAdmin",
                     !.admin = admin, !.orderId = orderId]]
    /\ UNCHANGED <<orders, orderItems, nextId, revalidated>>
    /\ UNCHANGED <<pageVars, win, crew>>

\* a caller invokes updateOrderStatus with form data
CallUpdateOrderStatus(p) ==
    /\ inv[p].pc = "idle"
    /\ \E admin \in BOOLEAN, orderId \in OrderIdInputs, status \in StatusInputs :
          inv' = [inv EXCEPT ![p] = [IdleInvocation EXCEPT
                     !.op = "updateOrderStatus", !.pc = "requireAdmin",
                     !.admin = admin, !.orderId = orderId, !.status = status]]
    /\ UNCHANGED <<orders, orderItems, nextId, revalidated>>
    /\ UNCHANGED <<pageVars, win, crew>>

\* deleteOrder: prisma.order.delete, revalidatePath.  The delete throws for a
\* missing order; for an order that still has items the schema decides
\* whether the items go with it or the delete throws.
DeleteOrderRow(p) ==
    /\ inv[p].pc = "deleteOrder"
    /\ LET id == inv[p].orderId
           deleted == /\ orders' = [o \in DOMAIN orders \ {id} |-> orders[o]]
                      /\ orderItems' = orderItems \ ItemsOf(id)
                      /\ revalidated' = revalidated \cup {<<"/admin/orders", 0>>}
                      /\ inv' = [inv EXCEPT ![p] = Finish(p, "success")]
           thrown == /\ inv' = [inv EXCEPT ![p] = Finish(p, "failed")]
                     /\ UNCHANGED <<orders, orderItems, revalidated>>
       IN  IF id \notin DOMAIN orders THEN thrown
           ELSE IF ItemsOf(id) = {} THEN deleted
           ELSE deleted \/ thrown
    /\ UNCHANGED nextId
    /\ UNCHANGED <<pageVars, win, crew>>

\* updateOrderStatus: prisma.order.update, revalidatePath (twice)
UpdateStatusRow(p) ==
    /\ inv[p].pc = "updateStatus"
    /\ IF inv[p].orderId \in DOMAIN orders
       THEN /\ orders' = [orders EXCEPT ![inv[p].orderId].status = inv[p].status]
            /\ revalidated' = revalidated \cup
                                {<<"/admin/orders", 0>>,
                                 <<"/admin/orders/", inv[p].orderId>>}
            /\ inv' = [inv EXCEPT ![p] = Finish(p, "success")]
       ELSE /\ inv' = [inv EXCEPT ![p] = Finish(p, "failed")]
            /\ UNCHANGED <<orders, revalidated>>
    /\ UNCHANGED <<orderItems, nextId>>
    /\ UNCHANGED <<pageVars, win, crew>>

(***************************************************************************)
(* linkPersonToMovieAction and unlinkPersonFromMovieAction.  A MovieCrew   *)
(* row is [id, movieId, personId, role, job, character, order]; null is    *)
(* the empty string for job and character and NoOrder for order.  Nothing  *)
(* in these two actions catches an error: a call that throws ends the      *)
(* invocation.                                                             *)
(***************************************************************************)
NoOrder == 0

CrewMovieIds == {1}
CrewPersonIds == {1}
RoleInputs == {"ACTOR"}
JobInputs == {"", " ", "Director"}
CharacterInputs == {"", "Ripley"}
CrewOrderInputs == {NoOrder, 1, 2}

\* text?.trim() || null
TrimOrNull(text) == IF text = " " THEN "" ELSE text

\* the where clause of findFirst
SameLink(row, i) ==
    /\ row.movieId = i.movieId /\ row.personId = i.personId
    /\ row.role = i.role /\ row.job = i.job /\ row.character = i.character

\* a caller invokes linkPersonToMovieAction with form data
CallLink(p) ==
    /\ inv[p].pc = "idle"
    /\ nextId.crew + InFlight("link") <= MaxCrewRows
    /\ \E admin \in BOOLEAN, valid \in BOOLEAN, movieId \in CrewMovieIds,
          personId \in CrewPersonIds, role \in RoleInputs, job \in JobInputs,
          character \in CharacterInputs, order \in CrewOrderInputs :
          inv' = [inv EXCEPT ![p] = [IdleInvocation EXCEPT
                     !.op = "link", !.pc = "requireAdmin", !.admin = admin,
                     !.valid = valid, !.movieId = movieId,
                     !.personId = personId, !.role = role, !.job = job,
                     !.character = character, !.order = order]]
    /\ UNCHANGED <<orders, orderItems, nextId, revalidated>>
    /\ UNCHANGED <<pageVars, win, crew>>

\* a caller invokes unlinkPersonFromMovieAction with form data
CallUnlink(p) ==
    /\ inv[p].pc = "idle"
    /\ \E admin \in BOOLEAN, valid \in BOOLEAN, movieId \in CrewMovieIds,
          personId \in CrewPersonIds, role \in RoleInputs, job \in JobInputs,
          character \in CharacterInputs :
          inv' = [inv EXCEPT ![p] = [IdleInvocation EXCEPT
                     !.op = "unlink", !.pc = "requireAdmin", !.admin = admin,
                     !.valid = valid, !.movieId = movieId,
                     !.personId = personId, !.role = role, !.job = job,
                     !.character = character]]
    /\ UNCHANGED <<orders, orderItems, nextId, revalidated>>
    /\ UNCHANGED <<pageVars, win, crew>>

\* linkPersonToMovieSchema.parseAsync (throws on invalid form data), then
\* the trimming of job and character
ParseLinkForm(p) ==
    /\ inv[p].pc = "parse"
    /\ inv' = [inv EXCEPT ![p] =
                 IF ~inv[p].valid THEN Finish(p, "threw")
                 ELSE [inv[p] EXCEPT !.pc = "findFirst",
                                     !.job = TrimOrNull(inv[p].job),
                                     !.character = TrimOrNull(inv[p].character)]]
    /\ UNCHANGED <<orders, orderItems, nextId, revalidated>>
    /\ UNCHANGED <<pageVars, win, crew>>

CrewPaths(i) == {<<"/movies/", i.movieId>>, <<"/person/", i.personId>>,
                 <<"/admin/person", 0>>}

\* prisma.movieCrew.findFirst: one of the matching rows, or null; unlink
\* with no matching row goes straight on to revalidatePath
CrewFindFirst(p) ==
    /\ inv[p].pc = "findFirst"
    /\ LET i == inv[p]
           found == {r \in crew : SameLink(r, i)}
       IN  IF found = {}
           THEN IF i.op = "unlink"
                THEN /\ inv' = [inv EXCEPT ![p] = Finish(p, "success")]
                     /\ revalidated' = revalidated \cup CrewPaths(i)
                ELSE /\ inv' = [inv EXCEPT ![p].pc = "write"]
                     /\ UNCHANGED revalidated
           ELSE /\ \E r \in found :
                     inv' = [inv EXCEPT ![p].pc = "write",
                                        ![p].existingId = r.id,
                                        ![p].existingOrder = r.order]
                /\ UNCHANGED revalidated
    /\ UNCHANGED <<orders, orderItems, nextId>>
    /\ UNCHANGED <<pageVars, win, crew>>

\* order: data.order ?? existing.order ?? null
LinkedOrder(i) == IF i.order # NoOrder THEN i.order ELSE i.existingOrder

\* linkPersonToMovieAction: prisma.movieCrew.update of the row found, or
\* prisma.movieCrew.create, then revalidatePath.  The update throws when
\* the row is gone.  A unique index over the tuple, if the schema has one,
\* rejects a second row only when job and character are both non-null.
LinkWrite(p) ==
    /\ inv[p].pc = "write" /\ inv[p].op = "link"
    /\ LET i == inv[p]
           thrown == /\ inv' = [inv EXCEPT ![p] = Finish(p, "threw")]
                     /\ UNCHANGED <<crew, nextId, revalidated>>
           updated == /\ crew' = {IF r.id = i.existingId
                                     THEN [r EXCEPT !.order = LinkedOrder(i)]
                                     ELSE r : r \in crew}
                      /\ revalidated' = revalidated \cup CrewPaths(i)
                      /\ inv' = [inv EXCEPT ![p] = Finish(p, "success")]
                      /\ UNCHANGED nextId
           created == /\ crew' = crew \cup
                            {[id |-> nextId.crew, movieId |-> i.movieId,
                              personId |-> i.personId, role |-> i.role,
                              job |-> i.job, character |-> i.character,
                              order |-> i.order]}
                      /\ nextId' = [nextId EXCEPT !.crew = @ + 1]
                      /\ revalidated' = revalidated \cup CrewPaths(i)
                      /\ inv' = [inv EXCEPT ![p] = Finish(p, "success")]
       IN  IF i.existingId # 0
           THEN IF \E r \in crew : r.id = i.existingId THEN updated ELSE thrown
           ELSE IF /\ \E r \in crew : SameLink(r, i)
                   /\ i.job # "" /\ i.character # ""
                THEN created \/ thrown
                ELSE created
    /\ UNCHANGED <<orders, orderItems>>
    /\ UNCHANGED <<pageVars, win>>

\* unlinkPersonFromMovieAction: prisma.movieCrew.delete of the row found
\* (throws when the row is gone), then revalidatePath
UnlinkDelete(p) ==
    /\ inv[p].pc = "write" /\ inv[p].op = "unlink"
    /\ LET i == inv[p]
       IN  IF \E r \in crew : r.id = i.existingId
           THEN /\ crew' = {r \in crew : r.id # i.existingId}
                /\ revalidated' = revalidated \cup CrewPaths(i)
                /\ inv' = [inv EXCEPT ![p] = Finish(p, "success")]
           ELSE /\ inv' = [inv EXCEPT ![p] = Finish(p, "threw")]
                /\ UNCHANGED <<crew, revalidated>>
    /\ UNCHANGED <<orders, orderItems, nextId>>
    /\ UNCHANGED <<pageVars, win>>

(***************************************************************************)
(* The specifications.                                                     *)
(***************************************************************************)
PageIdle == params = NoParams /\ totalMovies = 0 /\ view = NoView

OrdersIdle ==
    /\ orders = <<>>
    /\ orderItems = {}
    /\ crew = {}
    /\ nextId = [order |-> 1, item |-> 1, crew |-> 1]
    /\ revalidated = {}
    /\ inv = [p \in Proc |-> IdleInvocation]

InitPage ==
    /\ params \in ParamInputs
    /\ totalMovies \in TotalMoviesInputs
    /\ view = NoView
    /\ win = WinIdle
    /\ OrdersIdle

NextPage == MoviesPage \/ FollowLink

SpecPage == InitPage /\ [][NextPage]_vars

InitWindow == win \in WinInputs /\ PageIdle /\ OrdersIdle

NextWindow == ComputeWindow

SpecWindow == InitWindow /\ [][NextWindow]_vars

InitOrders == PageIdle /\ win = WinIdle /\ OrdersIdle

NextOrders ==
    \E p \in Proc :
        \/ CallCreateOrder(p)
        \/ CallAddOrderItem(p)
        \/ CallRemoveOrderItem(p)
        \/ RequireAdmin(p)
        \/ CreateOrderRow(p)
        \/ AddFindMovie(p)
        \/ AddCreateItem(p)
        \/ RemoveFindItem(p)
        \/ RemoveDeleteItem(p)
        \/ FindItems(p)
        \/ UpdateOrderTotal(p)
        \/ Return(p)

SpecOrders == InitOrders /\ [][NextOrders]_vars

NextCrew ==
    \E p \in Proc :
        \/ CallLink(p)
        \/ CallUnlink(p)
        \/ RequireAdmin(p)
        \/ ParseLinkForm(p)
        \/ CrewFindFirst(p)
        \/ LinkWrite(p)
        \/ UnlinkDelete(p)
        \/ Return(p)

SpecCrew == InitOrders /\ [][NextCrew]_vars

(***************************************************************************)
(* All seven actions.  The order actions and the crew actions share no     *)
(* table, so a behaviour of this specification exercises one of the two    *)
(* families: an action of one family is invoked only while the tables of   *)
(* the other are untouched and none of its invocations is under way.       *)
(***************************************************************************)
Callers == 1..NumCallers

CrewOps == {"link", "unlink"}
OrderOps == {"createOrder", "deleteOrder", "updateOrderStatus",
             "addOrderItem", "removeOrderItem"}

OrderTablesUntouched ==
    /\ orders = <<>> /\ orderItems = {}
    /\ nextId.order = 1 /\ nextId.item = 1
    /\ \A p \in Proc : inv[p].op \notin OrderOps

CrewTableUntouched ==
    /\ crew = {} /\ nextId.crew = 1
    /\ \A path \in revalidated : path[1] \in {"/admin/orders", "/admin/orders/"}
    /\ \A p \in Proc : inv[p].op \notin CrewOps

NextActions ==
    \E p \in Callers :
        \/ CrewTableUntouched /\ CallCreateOrder(p)
        \/ CrewTableUntouched /\ CallDeleteOrder(p)
        \/ CrewTableUntouched /\ CallUpdateOrderStatus(p)
        \/ CrewTableUntouched /\ CallAddOrderItem(p)
        \/ CrewTableUntouched /\ CallRemoveOrderItem(p)
        \/ OrderTablesUntouched /\ CallLink(p)
        \/ OrderTablesUntouched /\ CallUnlink(p)
        \/ RequireAdmin(p)
        \/ CreateOrderRow(p)
        \/ DeleteOrderRow(p)
        \/ UpdateStatusRow(p)
        \/ AddFindMovie(p)
        \/ AddCreateItem(p)
        \/ RemoveFindItem(p)
        \/ RemoveDeleteItem(p)
        \/ FindItems(p)
        \/ UpdateOrderTotal(p)
        \/ ParseLinkForm(p)
        \/ CrewFindFirst(p)
        \/ LinkWrite(p)
        \/ UnlinkDelete(p)
        \/ Return(p)

SpecActions == InitOrders /\ [][NextActions]_vars

Init == InitPage

Next == NextPage

Spec == SpecPage

(***************************************************************************)
(* Properties.                                                             *)
(***************************************************************************)
Whitelist == {SORT_MAP[k] : k \in DOMAIN SORT_MAP}

NonPageKeys == {"q", "genre", "sort", "order"}

IsPage(a) == ~a.nan /\ a.n >= 1

InRange(a, lo, hi) == ~a.nan /\ lo <= a.n /\ a.n <= hi

Max2(a, b) == IF a >= b THEN a ELSE b
Min2(a, b) == IF a <= b THEN a ELSE b

\* C1: for every raw page parameter the current page is an integer >= 1, a
\* non-numeric page gives the same current page as "0", and no invalid page
\* value reaches the data-store skip or the calculator.
C1_CurrentPageValid ==
    view.rendered =>
        /\ IsPage(view.descriptor.currentPage)
        /\ view.descriptor.currentPage =
              CurrentPage([params EXCEPT !.page = [some |-> TRUE, v |-> <<"0">>]])
              \/ ~ParamPage(params).nan
        /\ ~view.skip.nan /\ view.skip.n >= 0
        /\ IsPage(view.calculatorPage)

\* C2: the field passed to orderBy is one of the whitelisted fields, and a
\* sort parameter that is none of the four keys resolves to "title".
C2_SortFieldWhitelisted ==
    view.rendered =>
        /\ view.orderByField \in Whitelist
        /\ (~params.sort.some \/ params.sort.v \notin DOMAIN SORT_MAP)
              => view.orderByField = "title"

\* C3: whenever the pagination control is rendered, for an integer current
\* page, the previous and the next target are the current page -1 / +1
\* clamped to [1, max(totalPages, 1)].
C3_TargetsClamped ==
    (view.rendered /\ view.control /\ ~view.descriptor.currentPage.nan) =>
        LET c == view.descriptor.currentPage.n
            top == Max2(view.totalPages, 1)
        IN  /\ view.previousTarget = Num(Min2(Max2(c - 1, 1), top))
            /\ view.nextTarget = Num(Min2(Max2(c + 1, 1), top))
            /\ InRange(view.previousTarget, 1, top)
            /\ InRange(view.nextTarget, 1, top)

InDomain == win.done /\ win.totalPages > 1 /\ win.currentPage <= win.totalPages

PageTokens(ns) == [i \in 1..Len(ns) |-> IF ns[i] = 0 THEN Ellipsis ELSE PageToken(ns[i])]

ActivePages == {win.links[i].page : i \in {j \in 1..Len(win.links) :
                                              win.links[j].isActive}}

TenFiveTwo == win.done /\ win.totalPages = 10 /\ win.currentPage = 5
              /\ win.siblingCount = 2

NumericTokens(t) == {i \in 1..Len(t) : ~t[i].ellipsis}

\* C6: for totalPages > 1 and a current page in [1, totalPages] the numeric
\* tokens are strictly increasing, start with 1, end with totalPages, include
\* every page within siblingCount of the current page, and exactly one of
\* them is the current page; for totalPages <= 1 the sequence is empty and
\* the control is not rendered.
C6_AnchorsAndWindow ==
    /\ InDomain =>
          LET t == win.items
              nums == NumericTokens(t)
          IN  /\ Len(t) >= 2
              /\ t[1] = PageToken(1)
              /\ t[Len(t)] = PageToken(win.totalPages)
              /\ \A i, j \in nums : i < j => t[i].n < t[j].n
              /\ \A p \in 1..win.totalPages :
                    (win.currentPage - win.siblingCount <= p
                       /\ p <= win.currentPage + win.siblingCount)
                    => \E i \in nums : t[i].n = p
              /\ Cardinality({i \in nums : t[i].n = win.currentPage}) = 1
              /\ Cardinality({i \in 1..Len(win.links) : win.links[i].isActive}) = 1
              /\ win.control
    /\ (win.done /\ win.totalPages <= 1) =>
          win.items = <<>> /\ ~win.control

\* both anchors lie outside the window of the current page
C6_Witness ==
    /\ InDomain
    /\ win.currentPage - win.siblingCount > 2
    /\ win.currentPage + win.siblingCount < win.totalPages - 1
    /\ win.control

\* C7: the direction passed to the data store is descending exactly when
\* the order parameter is the string "desc", and ascending otherwise.
C7_DescOnlyForExactDesc ==
    view.rendered =>
        /\ view.orderByDirection \in {"asc", "desc"}
        /\ (view.orderByDirection = "desc") = (params.order = Some("desc"))

C7_Witness ==
    view.rendered /\ params.order = Some("DESC") /\ view.orderByDirection = "asc"

\* C8: serialising the descriptor of a request (search text, genre, sort
\* field, direction, page) into URL parameters and canonicalising those
\* again gives the same descriptor.
C8_RoundTrip ==
    view.rendered =>
        LET d == view.descriptor
            raw == createPageHref([q |-> Some(d.query),
                                   genre |-> Some(d.selectedGenre),
                                   sort |-> Some(ToText(d.sortField)),
                                   order |-> Some(d.sortOrder),
                                   page |-> NoChars], d.currentPage)
        IN  Descriptor(raw) = d

\* the hrefs of the control with the page each of them links to
BuiltHrefs ==
    IF view.rendered /\ view.control
    THEN {<<view.previousHref, view.previousTarget>>,
          <<view.nextHref, view.nextTarget>>}
         \cup {<<view.links[i].href, Num(view.links[i].page)>> :
                  i \in {j \in 1..Len(view.links) : view.links[j].kind = "link"}}
    ELSE {}

C10_TotalIsSumOfItems ==
    (\A p \in Proc : inv[p].pc \in {"idle", "done"}) =>
        \A o \in DOMAIN orders : orders[o].totalAmount = SumItems(ItemsOf(o))

LinkTuple(r) == <<r.movieId, r.personId, r.role, r.job, r.character>>

\* C11: after any interleaving of linkPersonToMovieAction and
\* unlinkPersonFromMovieAction invocations at most one MovieCrew row exists
\* for each tuple (movieId, personId, role, job, character).
C11_OneRowPerTuple ==
    \A r1, r2 \in crew : LinkTuple(r1) = LinkTuple(r2) => r1.id = r2.id

StoreVars == <<orders, orderItems, crew, nextId, revalidated>>

====
